---- MODULE Spec2Model ----
(***************************************************************************)
(* Veritas claim-falsification engine: truth variants and their            *)
(* falsification forms (truth.py), evidence and verdict results            *)
(* (evidence.py), the fast-path engine Verifier (engine.py), the purely    *)
(* symbolic engine falsify (falsification.py) and the testing surface      *)
(* claim / verified (testing.py, falsification.py).                        *)
(*                                                                         *)
(* Python strings built by f-strings are tuples of their pieces, so that   *)
(* "the text contains X" is "X is a piece of the tuple".  bool | None is   *)
(* one of "True", "False", "None".  A raised exception is the name of its  *)
(* class; "none" stands for a normal return.                               *)
(***************************************************************************)
EXTENDS Integers, Sequences, FiniteSets, TLC

\* Evidence values, rhs values and thresholds range over -MaxVal..MaxVal.
MaxVal == 1

Vals == (0 - MaxVal)..MaxVal

Names == {"result", "x", "state", "observation", "value"}

\* The capacity of the symbol cache: lru_cache(maxsize=256), scaled down so
\* that a handful of names fills it.
SymCacheSize == 2

-----------------------------------------------------------------------------
(* Terms and formulas of the symbolic library, as far as the engine uses   *)
(* them: numbers, symbols, binary relations, the booleans and the applied  *)
(* undefined function Contradicts.                                         *)

Num(i) == [k |-> "num", v |-> i, n |-> ""]
Sym(s) == [k |-> "sym", v |-> 0, n |-> s]
PyStr(s) == [k |-> "str", v |-> 0, n |-> s]
NoneT == [k |-> "none", v |-> 0, n |-> ""]

BoolF(b) == [op |-> IF b THEN "true" ELSE "false", l |-> NoneT, r |-> NoneT]
RelF(op, l, r) == [op |-> op, l |-> l, r |-> r]
NoFormula == [op |-> "none", l |-> NoneT, r |-> NoneT]

RelOps == {"Eq", "Ne", "Gt", "Ge", "Lt", "Le"}

\* The truth value of a relation between two numbers.
Holds(op, a, b) ==
    CASE op = "Eq" -> a = b
      [] op = "Ne" -> a # b
      [] op = "Gt" -> a > b
      [] op = "Ge" -> a >= b
      [] op = "Lt" -> a < b
      [] op = "Le" -> a <= b

\* sp.Eq / sp.Ne / > / >= / < / <= : both sides are sympified strictly
\* (None has no sympy form and raises SympifyError); a relation between two
\* numbers, or between a symbol and itself, evaluates at construction.
MkRel(op, l, r) ==
    IF l.k = "none" \/ r.k = "none"
    THEN [exc |-> "SympifyError", f |-> NoFormula]
    ELSE IF l.k = "num" /\ r.k = "num"
    THEN [exc |-> "none", f |-> BoolF(Holds(op, l.v, r.v))]
    ELSE IF l = r
    THEN [exc |-> "none", f |-> BoolF(op \in {"Eq", "Ge", "Le"})]
    ELSE [exc |-> "none", f |-> RelF(op, l, r)]

Negated(op) ==
    CASE op = "Eq" -> "Ne"
      [] op = "Ne" -> "Eq"
      [] op = "Gt" -> "Le"
      [] op = "Ge" -> "Lt"
      [] op = "Lt" -> "Ge"
      [] op = "Le" -> "Gt"

\* sp.Not: a boolean is flipped, a relation is replaced by its negated
\* relation, anything else stays wrapped.
MkNot(f) ==
    CASE f.op = "true" -> BoolF(FALSE)
      [] f.op = "false" -> BoolF(TRUE)
      [] f.op \in RelOps -> RelF(Negated(f.op), f.l, f.r)
      [] OTHER -> [op |-> "Not", l |-> f.l, r |-> f.r]

TermSymbols(t) == IF t.k = "sym" THEN {t.n} ELSE {}

\* formula.free_symbols, by name.
FreeSymbols(f) == TermSymbols(f.l) \cup TermSymbols(f.r)

SubsTerm(t, name, val) == IF t.k = "sym" /\ t.n = name THEN Num(val) ELSE t

\* formula.subs(symbol, value): the arguments are replaced and the formula
\* is rebuilt by its constructor, which evaluates a now-numeric relation.
Subs(f, name, val) ==
    IF f.op \in RelOps
    THEN MkRel(f.op, SubsTerm(f.l, name, val), SubsTerm(f.r, name, val)).f
    ELSE IF f.op \in {"Contradicts", "Not"}
    THEN [f EXCEPT !.l = SubsTerm(f.l, name, val)]
    ELSE f

\* str() of a term and of a formula.
StrTerm(t) ==
    CASE t.k = "num" -> ToString(t.v)
      [] t.k = "none" -> "None"
      [] OTHER -> t.n

StrFormula(f) ==
    CASE f.op = "true" -> <<"True">>
      [] f.op = "false" -> <<"False">>
      [] f.op = "Eq" -> <<"Eq(", StrTerm(f.l), ", ", StrTerm(f.r), ")">>
      [] f.op = "Ne" -> <<"Ne(", StrTerm(f.l), ", ", StrTerm(f.r), ")">>
      [] f.op = "Gt" -> <<StrTerm(f.l), " > ", StrTerm(f.r)>>
      [] f.op = "Ge" -> <<StrTerm(f.l), " >= ", StrTerm(f.r)>>
      [] f.op = "Lt" -> <<StrTerm(f.l), " < ", StrTerm(f.r)>>
      [] f.op = "Le" -> <<StrTerm(f.l), " <= ", StrTerm(f.r)>>
      [] f.op = "Contradicts" -> <<"Contradicts(", StrTerm(f.l), ")">>
      [] OTHER -> <<"~", StrTerm(f.l)>>

-----------------------------------------------------------------------------
(* Truth variants (truth.py).                                              *)

Directions == {">", ">=", "<", "<=", "="}

\* The callables a test hands to Empirical.expected_predicate: none, a
\* predicate that holds of 0 only, and one that raises ValueError.
\* DataGrounding supplies "has_support" (s is not None and s != ""), which
\* holds of every number.
Predicates == {"None", "is_zero", "raises"}

Analytic(lhs, rhs, var_name) ==
    [variant |-> "Analytic", statement |-> "analytic claim",
     lhs |-> lhs, rhs |-> rhs, var_name |-> var_name]

Modal(invariant, state_var) ==
    [variant |-> "Modal", statement |-> "modal claim",
     invariant |-> invariant, state_var |-> state_var]

Empirical(observation_var, expected_predicate, contradiction_description) ==
    [variant |-> "Empirical", statement |-> "empirical claim",
     observation_var |-> observation_var,
     expected_predicate |-> expected_predicate,
     contradiction_description |-> contradiction_description]

Probabilistic(metric, threshold, direction) ==
    [variant |-> "Probabilistic", statement |-> "probabilistic claim",
     metric |-> metric, threshold |-> threshold, direction |-> direction]

\* lhs is a name or a Symbol; rhs a number, None or a Symbol, possibly the
\* lhs Symbol itself; var_name is another name, the lhs name or the name of
\* the rhs Symbol.
AnalyticTruths ==
    {Analytic(PyStr("result"), rhs, "x") :
        rhs \in {Num(i) : i \in Vals} \cup {NoneT}}
    \cup {Analytic(Sym("result"), Num(0), "x")}
    \cup {Analytic(PyStr("result"), Num(0), "result")}
    \cup {Analytic(PyStr("result"), Sym("x"), "x")}
    \cup {Analytic(PyStr("x"), Sym("x"), "x")}

ModalTruths ==
    {Modal(RelF("Ge", Sym(v), Num(0)), "state") : v \in {"state", "x"}}

EmpiricalTruths ==
    {Empirical("observation", p, "") : p \in Predicates}
    \cup {Empirical("observation", "None", "no support found")}

ProbabilisticTruths ==
    {Probabilistic("value", 0, d) : d \in Directions}

Truths == AnalyticTruths \cup ModalTruths \cup EmpiricalTruths
              \cup ProbabilisticTruths

NoForm == [formula |-> NoFormula, free_symbols |-> {}, description |-> <<>>]

FalsificationForm(formula, description) ==
    [formula |-> formula, free_symbols |-> FreeSymbols(formula),
     description |-> description]

\* Mutant: the form is built over Symbol(var_name) instead of lhs.
AnalyticFalsifyOverVarName(t) ==
    LET lhs == Sym(t.var_name)
        ne == MkRel("Ne", lhs, t.rhs)
    IN  IF ne.exc # "none"
        THEN [exc |-> ne.exc, form |-> NoForm]
        ELSE [exc |-> "none",
              form |-> FalsificationForm(ne.f,
                  <<"Find ", t.var_name, " where ", StrTerm(lhs), " != ",
                    StrTerm(t.rhs)>>)]

\* Analytic.falsify: lhs != rhs over Symbol(lhs).
AnalyticFalsify(t) ==
    LET lhs == IF t.lhs.k = "str" THEN Sym(t.lhs.n) ELSE t.lhs
        ne == MkRel("Ne", lhs, t.rhs)
    IN  IF ne.exc # "none"
        THEN [exc |-> ne.exc, form |-> NoForm]
        ELSE [exc |-> "none",
              form |-> FalsificationForm(ne.f,
                  <<"Find ", t.var_name, " where ", StrTerm(lhs), " != ",
                    StrTerm(t.rhs)>>)]

\* Modal.falsify: the negated invariant.
ModalFalsify(t) ==
    [exc |-> "none",
     form |-> FalsificationForm(MkNot(t.invariant),
                 <<"Find ", t.state_var, " where not(",
                   StrFormula(t.invariant), ")">>)]

\* Empirical.falsify: Contradicts(observation_var).
EmpiricalFalsify(t) ==
    [exc |-> "none",
     form |-> FalsificationForm(
                 [op |-> "Contradicts", l |-> Sym(t.observation_var),
                  r |-> NoneT],
                 IF t.contradiction_description # ""
                 THEN <<t.contradiction_description>>
                 ELSE <<"Find ", t.observation_var,
                        " that contradicts claim">>)]

DirectionOp(direction) ==
    CASE direction = ">" -> "Gt"
      [] direction = ">=" -> "Ge"
      [] direction = "<" -> "Lt"
      [] direction = "<=" -> "Le"
      [] OTHER -> "Eq"

\* Mutant: the form is the expected condition itself, not its negation.
ProbabilisticFalsifyUnnegated(t) ==
    LET expected == MkRel(DirectionOp(t.direction), Sym(t.metric),
                          Num(t.threshold))
    IN  [exc |-> "none",
         form |-> FalsificationForm(expected.f,
                     <<"Find ", t.metric, " where not(", t.metric, " ",
                       t.direction, " ", ToString(t.threshold), ")">>)]

\* Probabilistic.falsify: not(metric <direction> threshold).
ProbabilisticFalsify(t) ==
    LET expected == MkRel(DirectionOp(t.direction), Sym(t.metric),
                          Num(t.threshold))
    IN  [exc |-> "none",
         form |-> FalsificationForm(MkNot(expected.f),
                     <<"Find ", t.metric, " where not(", t.metric, " ",
                       t.direction, " ", ToString(t.threshold), ")">>)]

\* truth.falsify(), by variant.
Falsify(t) ==
    CASE t.variant = "Analytic" -> AnalyticFalsify(t)
      [] t.variant = "Modal" -> ModalFalsify(t)
      [] t.variant = "Empirical" -> EmpiricalFalsify(t)
      [] t.variant = "Probabilistic" -> ProbabilisticFalsify(t)

-----------------------------------------------------------------------------
(* The symbol cache (symbolic.py): sym is wrapped in an LRU cache keyed by *)
(* the name.  cache lists the cached names, least recently used first;     *)
(* made holds the names for which a Symbol object has ever been built.     *)

NoSymbols == [cache |-> <<>>, made |-> {}]

Cached(s) == {s.cache[i] : i \in 1..Len(s.cache)}

\* A hit moves the name to the most recent end; a miss on a full cache
\* drops the least recently used name.
CacheAfter(cache, name) ==
    LET others == SelectSeq(cache, LAMBDA n : n # name)
    IN  IF Len(others) < Len(cache) THEN Append(others, name)
        ELSE IF Len(cache) >= SymCacheSize THEN Append(Tail(cache), name)
        ELSE Append(cache, name)

\* The state of the cache after sym(name).
SymIntern(s, name) ==
    [cache |-> CacheAfter(s.cache, name), made |-> s.made \cup {name}]

RECURSIVE InternAll(_, _)
InternAll(s, names) ==
    IF names = <<>> THEN s
    ELSE InternAll(SymIntern(s, Head(names)), Tail(names))

\* Whether sym(name) may return the object an earlier sym(name) returned
\* (same = TRUE) or another one (same = FALSE).  A hit returns the cached
\* object.  A miss calls sp.Symbol(name): for a name never built before
\* that is a first object; for a name built before and since evicted, the
\* library's own cache may still hand out the earlier object or may build
\* a new one.
SymReturns(s, name, same) ==
    IF name \in Cached(s) THEN same
    ELSE IF name \in s.made THEN same \in BOOLEAN
    ELSE ~same

-----------------------------------------------------------------------------
(* Evidence and results (evidence.py).                                     *)

\* The names a truth mentions; an evidence for it binds some of them and
\* possibly one more name the truth does not mention.
TruthNames(t) ==
    CASE t.variant = "Analytic" -> {t.lhs.n, t.var_name}
      [] t.variant = "Modal" -> {t.state_var} \cup FreeSymbols(t.invariant)
      [] t.variant = "Empirical" -> {t.observation_var}
      [] t.variant = "Probabilistic" -> {t.metric}

EvidenceNames(t) ==
    TruthNames(t) \cup {CHOOSE n \in Names : n \notin TruthNames(t)}

\* Evidence.bindings: a dict from names to values.
BindingsOver(S) == UNION {[D -> Vals] : D \in SUBSET S}

EmptyBindings == <<>>

\* Mutant: a name that is already bound keeps its first value.
UpdateKeepsFirst(b, new) ==
    [n \in DOMAIN b \cup DOMAIN new |->
        IF n \in DOMAIN b THEN b[n] ELSE new[n]]

\* dict.update / dict[name] = value
Update(b, new) ==
    [n \in DOMAIN b \cup DOMAIN new |->
        IF n \in DOMAIN new THEN new[n] ELSE b[n]]

\* The longest sequence of bind and observe calls replayed on one handle.
MaxOps == 2

\* A bind or observe call, as the bindings it writes.
BindOp(new) == [op |-> "bind", new |-> new]
ObserveOp(name, value) == [op |-> "observe", new |-> [n \in {name} |-> value]]

\* What c.observe(name, value) returns.
ObserveReturn(name, value) == value

\* The bindings of a handle that started with b, after the calls ops in
\* order.
RECURSIVE Replay(_, _)
Replay(b, ops) ==
    IF ops = <<>> THEN b
    ELSE Replay(Update(b, Head(ops).new), Tail(ops))

\* Evidence objects live on the heap and are referred to by reference:
\* the caller's, the claim scope's, the decorator's, the one
\* verify_with_predicate builds and the second claim scope's.
EvRefs == {"caller", "ctx", "wrapper", "value", "ctx2"}

NoResult ==
    [verdict |-> "None", form |-> NoForm, evidence |-> "none",
     trace |-> <<>>, reasoning |-> <<>>]

\* VerdictResult(verdict=UNCERTAIN, trace=[], reasoning="")
NewResult ==
    [verdict |-> "UNCERTAIN", form |-> NoForm, evidence |-> "none",
     trace |-> <<>>, reasoning |-> <<>>]

\* VerdictResult.add_trace
AddTrace(r, step) == [r EXCEPT !.trace = Append(r.trace, step)]

-----------------------------------------------------------------------------
(* The engines (engine.py, falsification.py).  A call yields an outcome:   *)
(* the exception that left it ("none" for a return), the result returned   *)
(* and the internal steps it performed, in order.                          *)

Range(seq) == {seq[i] : i \in 1..Len(seq)}

Returned(r, steps) == [raised |-> "none", result |-> r, steps |-> steps]
Raised(e, steps) == [raised |-> e, result |-> NoResult, steps |-> steps]

RECURSIVE SubstituteNames(_, _, _)
SubstituteNames(f, b, todo) ==
    IF todo = {} THEN f
    ELSE LET n == CHOOSE m \in todo : TRUE
         IN  SubstituteNames(Subs(f, n, b[n]), b, todo \ {n})

\* Verifier.substitute / _substitute: every binding of the evidence is
\* substituted into the form's formula, one after the other.
Substitute(form, b) == SubstituteNames(form.formula, b, DOMAIN b)

\* Mutant: an applied Contradicts whose argument is a number counts as
\* true.
EvaluateContradictsHolds(f) ==
    CASE f.op = "true" -> "True"
      [] f.op = "false" -> "False"
      [] f.op \in RelOps /\ f.l.k = "num" /\ f.r.k = "num" ->
            IF Holds(f.op, f.l.v, f.r.v) THEN "True" ELSE "False"
      [] f.op = "Contradicts" /\ f.l.k = "num" -> "True"
      [] OTHER -> "None"

\* Verifier.evaluate / _evaluate: simplify, then recognise the booleans,
\* then relations whose two sides hold no symbol.
Evaluate(f) ==
    CASE f.op = "true" -> "True"
      [] f.op = "false" -> "False"
      [] f.op \in RelOps /\ f.l.k = "num" /\ f.r.k = "num" ->
            IF Holds(f.op, f.l.v, f.r.v) THEN "True" ELSE "False"
      [] OTHER -> "None"

\* Python's actual != expected for a bound number and the claim's rhs.
PyNotEqual(actual, expected) ==
    IF expected.k = "num" THEN actual # expected.v ELSE TRUE

\* Mutant: the direct path looks the value up under var_name, not lhs.
EvaluateDirectlyByVarName(t, b) ==
    IF t.variant = "Analytic" /\ t.var_name \in DOMAIN b
    THEN IF PyNotEqual(b[t.var_name], t.rhs) THEN "True" ELSE "False"
    ELSE "None"

\* Mutant: the Modal branch returns the invariant's truth value instead of
\* its violation.
EvaluateDirectlyInvariantHolds(t, b) ==
    IF t.variant = "Analytic" /\ t.lhs.n \in DOMAIN b
    THEN IF PyNotEqual(b[t.lhs.n], t.rhs) THEN "True" ELSE "False"
    ELSE IF t.variant = "Modal" /\ t.state_var \in DOMAIN b
    THEN LET simplified == Subs(t.invariant, t.state_var, b[t.state_var])
         IN  CASE simplified.op = "false" -> "False"
               [] simplified.op = "true" -> "True"
               [] OTHER -> "None"
    ELSE "None"

\* Verifier._evaluate_falsification_directly
EvaluateFalsificationDirectly(t, b) ==
    IF t.variant = "Analytic" /\ t.lhs.n \in DOMAIN b
    THEN IF PyNotEqual(b[t.lhs.n], t.rhs) THEN "True" ELSE "False"
    ELSE IF t.variant = "Modal" /\ t.state_var \in DOMAIN b
    THEN LET simplified == Subs(t.invariant, t.state_var, b[t.state_var])
         IN  CASE simplified.op = "false" -> "True"
               [] simplified.op = "true" -> "False"
               [] OTHER -> "None"
    ELSE "None"

\* Mutant: the result's evidence is not set before the completeness check.
PreparedEvidenceUnset(t, ref, b, form) ==
    LET r1 == AddTrace(NewResult,
                  <<"Constructing falsification form for: ", t.statement>>)
        r2 == AddTrace([r1 EXCEPT !.form = form],
                  <<"Falsification form: ", form.description>>)
    IN  AddTrace(r2, <<"Evidence bindings: ", b>>)

\* Steps 1 and 2 of both engines: the form, the evidence, the missing names.
Prepared(t, ref, b, form) ==
    LET r1 == AddTrace(NewResult,
                  <<"Constructing falsification form for: ", t.statement>>)
        r2 == AddTrace([r1 EXCEPT !.form = form],
                  <<"Falsification form: ", form.description>>)
        r3 == AddTrace(r2, <<"Evidence bindings: ", b>>)
    IN  [r3 EXCEPT !.evidence = ref]

\* Mutant: the completeness check is skipped.
MissingSkipped(form, b) == {}

Missing(form, b) == {n \in form.free_symbols : n \notin DOMAIN b}

\* Mutant: missing evidence counts as survival.
MissingResultSurvived(r, missing) ==
    AddTrace([r EXCEPT !.verdict = "SURVIVED",
                       !.reasoning = <<"Missing evidence for: ", missing>>],
             <<"Cannot evaluate: missing ", missing>>)

MissingResult(r, missing) ==
    AddTrace([r EXCEPT !.reasoning = <<"Missing evidence for: ", missing>>],
             <<"Cannot evaluate: missing ", missing>>)

\* Mutant: an indeterminate evaluation counts as "not falsified".
SymbolicResultLenient(r, form, b) ==
    LET substituted == Substitute(form, b)
        r1 == AddTrace(r, <<"Substituted formula: ", StrFormula(substituted)>>)
        eval_result == Evaluate(substituted)
        r2 == AddTrace(r1, <<"Evaluation result: ", eval_result>>)
    IN  IF eval_result = "True"
        THEN [r2 EXCEPT !.verdict = "KILLED",
                        !.reasoning = <<"Falsification condition met: ",
                                        form.description>>]
        ELSE [r2 EXCEPT !.verdict = "SURVIVED",
                        !.reasoning =
                            <<"Falsification condition not met with given evidence">>]

\* The symbolic path and the verdict it leads to.
SymbolicResult(r, form, b) ==
    LET substituted == Substitute(form, b)
        r1 == AddTrace(r, <<"Substituted formula: ", StrFormula(substituted)>>)
        eval_result == Evaluate(substituted)
        r2 == AddTrace(r1, <<"Evaluation result: ", eval_result>>)
    IN  CASE eval_result = "True" ->
               [r2 EXCEPT !.verdict = "KILLED",
                          !.reasoning = <<"Falsification condition met: ",
                                          form.description>>]
          [] eval_result = "False" ->
               [r2 EXCEPT !.verdict = "SURVIVED",
                          !.reasoning =
                              <<"Falsification condition not met with given evidence">>]
          [] OTHER ->
               [r2 EXCEPT !.verdict = "UNCERTAIN",
                          !.reasoning = <<"Could not evaluate formula: ",
                                          StrFormula(substituted)>>]

\* The verdict of the direct path.
DirectResult(r, form, direct_result) ==
    LET r1 == AddTrace(r, <<"Direct evaluation result: ", direct_result>>)
    IN  IF direct_result = "True"
        THEN [r1 EXCEPT !.verdict = "KILLED",
                        !.reasoning = <<"Falsification condition met: ",
                                        form.description>>]
        ELSE [r1 EXCEPT !.verdict = "SURVIVED",
                        !.reasoning =
                            <<"Falsification condition not met with given evidence">>]

\* Mutant: the symbolic path runs after the direct path whatever the direct
\* path returned, and its outcome sets the verdict.
VerifierVerifyAlwaysSymbolic(t, ref, b) ==
    LET ff == Falsify(t)
    IN  IF ff.exc # "none" THEN Raised(ff.exc, <<"falsify">>)
        ELSE LET form == ff.form
                 r == Prepared(t, ref, b, form)
                 missing == Missing(form, b)
                 direct_result == EvaluateFalsificationDirectly(t, b)
             IN  IF missing # {}
                 THEN Returned(MissingResult(r, missing),
                               <<"falsify", "check">>)
                 ELSE IF direct_result # "None"
                 THEN Returned(SymbolicResult(
                                   DirectResult(r, form, direct_result),
                                   form, b),
                               <<"falsify", "check", "direct",
                                 "substitute", "evaluate">>)
                 ELSE Returned(SymbolicResult(r, form, b),
                               <<"falsify", "check", "direct",
                                 "substitute", "evaluate">>)

\* Verifier.verify(truth, evidence), evidence being the object ref with
\* bindings b.
VerifierVerify(t, ref, b) ==
    LET ff == Falsify(t)
    IN  IF ff.exc # "none" THEN Raised(ff.exc, <<"falsify">>)
        ELSE LET form == ff.form
                 r == Prepared(t, ref, b, form)
                 missing == Missing(form, b)
                 direct_result == EvaluateFalsificationDirectly(t, b)
             IN  IF missing # {}
                 THEN Returned(MissingResult(r, missing),
                               <<"falsify", "check">>)
                 ELSE IF direct_result # "None"
                 THEN Returned(DirectResult(r, form, direct_result),
                               <<"falsify", "check", "direct">>)
                 ELSE Returned(SymbolicResult(r, form, b),
                               <<"falsify", "check", "direct",
                                 "substitute", "evaluate">>)

\* falsification.falsify(truth, evidence)
FalsifyEngine(t, ref, b) ==
    LET ff == Falsify(t)
    IN  IF ff.exc # "none" THEN Raised(ff.exc, <<"falsify">>)
        ELSE LET form == ff.form
                 r == Prepared(t, ref, b, form)
                 missing == Missing(form, b)
             IN  IF missing # {}
                 THEN Returned(MissingResult(r, missing),
                               <<"falsify", "check">>)
                 ELSE Returned(SymbolicResult(r, form, b),
                               <<"falsify", "check", "substitute",
                                 "evaluate">>)

Engines == {"verify", "falsify"}

\* The stages a call of an engine went through, from the steps it
\* performed: the result is built first; the form is constructed when
\* truth.falsify() returns; the evidence is checked; then either names are
\* missing or an evaluation runs; the return hands out the verdict.
Phases(out) ==
    <<"start">>
    \o (IF out.raised = "none" /\ "falsify" \in Range(out.steps)
        THEN <<"form-constructed">> ELSE <<>>)
    \o (IF "check" \in Range(out.steps)
        THEN <<"evidence-checked">> ELSE <<>>)
    \o (IF "check" \in Range(out.steps)
           /\ Range(out.steps) \cap {"direct", "substitute", "evaluate"} = {}
        THEN <<"missing-evidence">> ELSE <<>>)
    \o (IF Range(out.steps) \cap {"direct", "substitute", "evaluate"} # {}
        THEN <<"evaluated">> ELSE <<>>)
    \o (IF out.raised = "none" THEN <<"verdict-assigned">> ELSE <<>>)

\* The values result.verdict holds during a call, in order: UNCERTAIN from
\* the constructor, then the one assignment after a deciding evaluation.
VerdictWrites(out) ==
    <<"UNCERTAIN">>
    \o (IF out.raised = "none"
           /\ Range(out.steps) \cap {"direct", "evaluate"} # {}
        THEN <<out.result.verdict>> ELSE <<>>)

RunEngine(engine, t, ref, b) ==
    IF engine = "verify" THEN VerifierVerify(t, ref, b)
    ELSE FalsifyEngine(t, ref, b)

\* A dict iterates its keys in insertion order; callers insert in this
\* order.
KeyOrder ==
    <<"result", "x", "state", "observation", "value", "status_code",
      "accuracy", "holds", "support">>

\* The keys of a bindings dict with key set D, in iteration order.
KeysOf(D) == SelectSeq(KeyOrder, LAMBDA n : n \in D)

\* The names a call of an engine passes to sym, in order: the Modal direct
\* path interns state_var, Evidence.to_sympy interns every bound name.
InternedBy(engine, t, b) ==
    LET ff == Falsify(t)
        direct == IF t.variant = "Modal" /\ t.state_var \in DOMAIN b
                  THEN <<t.state_var>> ELSE <<>>
    IN  IF ff.exc # "none" THEN <<>>
        ELSE IF Missing(ff.form, b) # {} THEN <<>>
        ELSE IF engine = "falsify" THEN KeysOf(DOMAIN b)
        ELSE IF EvaluateFalsificationDirectly(t, b) # "None" THEN direct
        ELSE direct \o KeysOf(DOMAIN b)

\* Verifier.__init__(strict=False)
VerifierInit(strict) == [strict |-> strict]

\* Mutant: strict is on by default.
StrictVerifier == VerifierInit(TRUE)

DefaultVerifier == VerifierInit(FALSE)

\* getattr(truth, predicate_name, None): the check methods the variants
\* expose, and the statement attribute every truth has (a str, no method).
GetAttr(t, predicate_name) ==
    CASE predicate_name = "check_observation" /\ t.variant = "Empirical" ->
            "check_observation"
      [] predicate_name = "check_threshold" /\ t.variant = "Probabilistic" ->
            "check_threshold"
      [] predicate_name = "statement" -> "statement"
      [] OTHER -> "None"

PredicateNames == {"check", "check_observation", "check_threshold", "statement"}

\* A call of the callable given as expected_predicate.
ApplyPredicate(p, value) ==
    CASE p = "is_zero" -> [exc |-> "none", value |-> (value = 0)]
      [] p = "raises" -> [exc |-> "ValueError", value |-> FALSE]
      [] p = "has_support" -> [exc |-> "none", value |-> TRUE]

\* Empirical.check_observation
CheckObservation(t, value) ==
    IF t.expected_predicate = "None"
    THEN [exc |-> "none", value |-> TRUE]
    ELSE ApplyPredicate(t.expected_predicate, value)

\* Mutant: the strict directions accept the threshold itself.
CheckThresholdInclusive(t, value) ==
    [exc |-> "none",
     value |-> CASE t.direction \in {">", ">="} -> value >= t.threshold
                 [] t.direction \in {"<", "<="} -> value <= t.threshold
                 [] OTHER -> value = t.threshold]

\* Probabilistic.check_threshold
CheckThreshold(t, value) ==
    [exc |-> "none",
     value |-> CASE t.direction = ">" -> value > t.threshold
                 [] t.direction = ">=" -> value >= t.threshold
                 [] t.direction = "<" -> value < t.threshold
                 [] t.direction = "<=" -> value <= t.threshold
                 [] OTHER -> value = t.threshold]

\* predicate(value) for the attribute getattr found; calling a str raises.
CallPredicate(t, predicate, value) ==
    CASE predicate = "check_observation" -> CheckObservation(t, value)
      [] predicate = "check_threshold" -> CheckThreshold(t, value)
      [] OTHER -> [exc |-> "TypeError", value |-> FALSE]

\* str(e) of a caught exception.
ExcText(e) == <<"message of ", e>>

\* except Exception: the classes the handler catches.
CaughtByExceptException == {"SympifyError", "ValueError", "TypeError"}

\* Mutant: the predicate call is not guarded by try / except.
PredicateFailedPropagates(r, e, steps) == Raised(e, steps)

PredicateFailed(r, e, steps) ==
    IF e \in CaughtByExceptException
    THEN Returned([r EXCEPT !.verdict = "UNCERTAIN",
                            !.reasoning = <<"Predicate evaluation failed: ",
                                            ExcText(e)>>], steps)
    ELSE Raised(e, steps)

\* Verifier.verify_with_predicate(truth, value, predicate_name)
VerifyWithPredicate(t, value, predicate_name) ==
    LET result == [NewResult EXCEPT
                      !.evidence = "value",
                      !.trace = << <<"Checking ", t.statement,
                                     " with value: ", ToString(value)>> >>]
        predicate == GetAttr(t, predicate_name)
        ff == Falsify(t)
        r1 == [result EXCEPT !.form = ff.form]
        check_result == CallPredicate(t, predicate, value)
        r2 == AddTrace(r1, <<"Predicate result: ", check_result.value>>)
    IN  IF predicate = "None"
        THEN Returned([result EXCEPT !.reasoning =
                          <<"Truth has no '", predicate_name, "' method">>],
                      <<"getattr">>)
        ELSE IF ff.exc # "none"
        THEN PredicateFailed(result, ff.exc, <<"getattr", "falsify">>)
        ELSE IF check_result.exc # "none"
        THEN PredicateFailed(r1, check_result.exc,
                             <<"getattr", "falsify", "predicate">>)
        ELSE IF check_result.value
        THEN Returned([r2 EXCEPT !.verdict = "SURVIVED",
                                 !.reasoning = <<"Value ", ToString(value),
                                                 " satisfies predicate">>],
                      <<"getattr", "falsify", "predicate">>)
        ELSE Returned([r2 EXCEPT !.verdict = "KILLED",
                                 !.reasoning = <<"Value ", ToString(value),
                                                 " violates predicate: ",
                                                 ff.form.description>>],
                      <<"getattr", "falsify", "predicate">>)

-----------------------------------------------------------------------------
(* The testing surface (testing.py, falsification.py).                     *)

\* The module a claim() or verified() comes from, and the engine it runs.
Impls == {"testing", "falsification"}

EngineOf(impl) == IF impl = "testing" THEN "verify" ELSE "falsify"

\* What a wrapped test function returns: None, a dict, or a single value.
RetNone == [k |-> "none", b |-> EmptyBindings, v |-> 0]
RetDict(b) == [k |-> "dict", b |-> b, v |-> 0]
RetValue(v) == [k |-> "value", b |-> EmptyBindings, v |-> v]

ReturnValues(t) ==
    {RetNone} \cup {RetDict(b) : b \in BindingsOver(EvidenceNames(t))}
              \cup {RetValue(v) : v \in Vals}

\* Mutant: every falsy return value, not only None, gives empty bindings.
WrapperBindingsFalsy(ret) ==
    CASE ret.k = "none" -> EmptyBindings
      [] ret.k = "dict" -> ret.b
      [] ret.v = 0 -> EmptyBindings
      [] OTHER -> [n \in {"result"} |-> ret.v]

\* The bindings verified.wrapper builds from the return value.
WrapperBindings(ret) ==
    CASE ret.k = "none" -> EmptyBindings
      [] ret.k = "dict" -> ret.b
      [] OTHER -> [n \in {"result"} |-> ret.v]

KilledMessage(t, r, bindings) ==
    <<"Claim KILLED: ", t.statement, "Reasoning: ", r.reasoning,
      "Evidence: ", bindings>>

UncertainMessage(t, r) ==
    <<"Claim UNCERTAIN: ", t.statement, "Reasoning: ", r.reasoning>>

\* verified(truth_factory)(func)(): the wrapper around a test function that
\* returned ret.  testing.py builds its own Verifier(); falsification.py
\* calls falsify and has no strict check.
WrapperRun(impl, t, ret) ==
    LET wverifier == DefaultVerifier
        bindings == WrapperBindings(ret)
        out == RunEngine(EngineOf(impl), t, "wrapper", bindings)
        result == out.result
    IN  IF out.raised # "none"
        THEN [raised |-> out.raised, message |-> <<>>, result |-> NoResult]
        ELSE IF result.verdict = "KILLED"
        THEN [raised |-> "AssertionError",
              message |-> KilledMessage(t, result, bindings),
              result |-> NoResult]
        ELSE IF impl = "testing" /\ result.verdict = "UNCERTAIN"
                /\ wverifier.strict
        THEN [raised |-> "AssertionError",
              message |-> UncertainMessage(t, result),
              result |-> NoResult]
        ELSE [raised |-> "none", message |-> <<>>, result |-> result]

\* How the block of a with claim(...) statement ends: it runs to its end,
\* returns early, or raises.
BlockExceptions == {"ValueError"}

BlockEnds == {"normal", "return"} \cup BlockExceptions

-----------------------------------------------------------------------------
(* Domain truths (extensions.py): each converts itself to a base truth and *)
(* builds the Evidence for it.                                             *)

HTTPResponse(endpoint, expected_status) ==
    [domain |-> "api", endpoint |-> endpoint,
     expected_status |-> expected_status]

ModelAccuracy(model_name, threshold) ==
    [domain |-> "ml", model_name |-> model_name, threshold |-> threshold]

InvariantCheck(property_name, predicate) ==
    [domain |-> "state", property_name |-> property_name,
     predicate |-> predicate]

DataGrounding(claim, evidence_type) ==
    [domain |-> "grounding", claim |-> claim, evidence_type |-> evidence_type]

NoDomain == [domain |-> "none"]

DomainTruths ==
    {HTTPResponse("/api/health", e) : e \in Vals}
    \cup {ModelAccuracy("classifier", th) : th \in Vals}
    \cup {InvariantCheck("non-negative", RelF("Ge", Sym(v), Num(0))) :
              v \in {"state", "x"}}
    \cup {DataGrounding("function works", "test")}

\* f"No {evidence_type} found for: {claim}"
GroundingText(evidence_type, claim) ==
    IF evidence_type = "test" /\ claim = "function works"
    THEN "No test found for: function works"
    ELSE "No support found"

\* to_base_truth()
ToBaseTruth(d) ==
    CASE d.domain = "api" ->
            [Analytic(PyStr("status_code"), Num(d.expected_status),
                      "response")
                EXCEPT !.statement = <<"GET ", d.endpoint, " returns ",
                                       ToString(d.expected_status)>>]
      [] d.domain = "ml" ->
            [Probabilistic("accuracy", d.threshold, ">=")
                EXCEPT !.statement = <<d.model_name, " accuracy >= ",
                                       ToString(d.threshold)>>]
      [] d.domain = "state" ->
            [Modal(d.predicate, "state")
                EXCEPT !.statement = <<d.property_name, " holds">>]
      [] d.domain = "grounding" ->
            [Empirical("support", "has_support",
                       GroundingText(d.evidence_type, d.claim))
                EXCEPT !.statement = <<d.claim, " has ", d.evidence_type,
                                       " support">>]

\* bind(...): the bindings of the Evidence each domain truth builds from
\* the measured value (and, for InvariantCheck, the predicate's result).
DomainBind(d, value, predicate_result) ==
    CASE d.domain = "api" -> [n \in {"status_code"} |-> value]
      [] d.domain = "ml" -> [n \in {"accuracy"} |-> value]
      [] d.domain = "state" ->
            [n \in {"state", "holds"} |->
                IF n = "state" THEN value ELSE predicate_result]
      [] d.domain = "grounding" -> [n \in {"support"} |-> value]

-----------------------------------------------------------------------------
(* The state machine: a test session that calls the engines directly,      *)
(* calls a decorated test function, or runs a claim scope.                 *)

VARIABLES
    pc,        \* where the session is
    verifier,  \* the Verifier the caller configured
    heap,      \* the bindings of each Evidence object
    call,      \* the last direct engine call and its outcome
    wrap,      \* the call of a decorated test function and its outcome
    ctx,       \* the ClaimContext handle of the claim scope
    scope,     \* how the scope's block ended and what left the with statement
    symbols,   \* the symbol cache of sym
    symcall,   \* the last direct call of sym and the identity it returned
    domain,    \* the domain truth the session built, if any
    inner      \* the handle of a second claim scope, opened inside the first

vars == <<pc, verifier, heap, call, wrap, ctx, scope, symbols, symcall,
          domain, inner>>

NoTruth == [variant |-> "None", statement |-> ""]

NoCall ==
    [op |-> "none", truth |-> NoTruth, value |-> 0, predicate_name |-> "",
     out |-> Returned(NoResult, <<>>), again |-> Returned(NoResult, <<>>)]

NoSymCall == [name |-> "", prior |-> FALSE, same |-> FALSE]

NoWrap ==
    [impl |-> "none", truth |-> NoTruth, ret |-> RetNone,
     out |-> [raised |-> "none", message |-> <<>>, result |-> NoResult]]

NoCtx == [impl |-> "none", truth |-> NoTruth, evidence |-> "none",
          result |-> NoResult]

NoInner ==
    [pc |-> "none", impl |-> "none", truth |-> NoTruth, evidence |-> "none",
     result |-> NoResult, propagated |-> "none", outer_open |-> FALSE]

NoScope == [block |-> "none", propagated |-> "none", assigns |-> 0,
            out |-> Returned(NoResult, <<>>)]

Init ==
    /\ pc = "idle"
    /\ verifier \in {VerifierInit(s) : s \in BOOLEAN}
    /\ heap = [r \in EvRefs |-> EmptyBindings]
    /\ call = NoCall
    /\ wrap = NoWrap
    /\ ctx = NoCtx
    /\ scope = NoScope
    /\ symbols = NoSymbols
    /\ symcall = NoSymCall
    /\ domain = NoDomain
    /\ inner = NoInner

\* verifier.verify(truth, Evidence(bindings=b)) or
\* falsify(truth, Evidence(bindings=b))
DirectCall(engine, t, b) ==
    /\ pc = "idle"
    /\ pc' = "called"
    /\ heap' = [heap EXCEPT !["caller"] = b]
    /\ call' = [op |-> engine, truth |-> t, value |-> 0,
                predicate_name |-> "",
                out |-> RunEngine(engine, t, "caller", b),
                again |-> Returned(NoResult, <<>>)]
    /\ symbols' = InternAll(symbols, InternedBy(engine, t, b))
    /\ UNCHANGED <<verifier, wrap, ctx, scope, symcall, domain, inner>>

\* A domain truth is converted, its evidence is built by bind, and the
\* base truth is verified against it.
DomainVerify(engine, d, value, predicate_result) ==
    /\ pc = "idle"
    /\ pc' = "called"
    /\ domain' = d
    /\ heap' = [heap EXCEPT !["caller"] =
                   DomainBind(d, value, predicate_result)]
    /\ call' = [op |-> engine, truth |-> ToBaseTruth(d), value |-> 0,
                predicate_name |-> "",
                out |-> RunEngine(engine, ToBaseTruth(d), "caller",
                                  DomainBind(d, value, predicate_result)),
                again |-> Returned(NoResult, <<>>)]
    /\ symbols' = InternAll(symbols,
                     InternedBy(engine, ToBaseTruth(d),
                                DomainBind(d, value, predicate_result)))
    /\ UNCHANGED <<verifier, wrap, ctx, scope, symcall, inner>>

\* verifier.verify_with_predicate(truth, value, predicate_name)
PredicateCall(t, value, predicate_name) ==
    /\ pc = "idle"
    /\ pc' = "called"
    /\ heap' = [heap EXCEPT !["value"] = [n \in {"value"} |-> value]]
    /\ call' = [op |-> "verify_with_predicate", truth |-> t,
                value |-> value, predicate_name |-> predicate_name,
                out |-> VerifyWithPredicate(t, value, predicate_name),
                again |-> Returned(NoResult, <<>>)]
    /\ UNCHANGED <<verifier, wrap, ctx, scope, symbols, symcall, domain, inner>>

\* A call of a test function decorated with @verified(lambda: t).
WrapperCall(impl, t, ret) ==
    /\ pc = "idle"
    /\ pc' = "wrapped"
    /\ heap' = [heap EXCEPT !["wrapper"] = WrapperBindings(ret)]
    /\ wrap' = [impl |-> impl, truth |-> t, ret |-> ret,
                out |-> WrapperRun(impl, t, ret)]
    /\ symbols' = InternAll(symbols,
                     InternedBy(EngineOf(impl), t, WrapperBindings(ret)))
    /\ UNCHANGED <<verifier, call, ctx, scope, symcall, domain, inner>>

\* with claim(t) as c: the generator runs up to its yield.
ClaimEnter(impl, t) ==
    /\ pc = "idle"
    /\ pc' = "in_block"
    /\ heap' = [heap EXCEPT !["ctx"] = EmptyBindings]
    /\ ctx' = [impl |-> impl, truth |-> t, evidence |-> "ctx",
               result |-> NoResult]
    /\ UNCHANGED <<verifier, call, wrap, scope, symbols, symcall, domain, inner>>

\* The keyword arguments of a bind call: one or two names.
BindArgs(t) ==
    {new \in BindingsOver(EvidenceNames(t)) :
        Cardinality(DOMAIN new) \in {1, 2}}

\* c.bind(**new) inside the block
Bind(new) ==
    /\ pc = "in_block"
    /\ heap' = [heap EXCEPT ![ctx.evidence] = Update(@, new)]
    /\ UNCHANGED <<pc, verifier, call, wrap, ctx, scope, symbols, symcall, domain, inner>>

\* c.observe(name, value) inside the block
Observe(name, value) ==
    /\ pc = "in_block"
    /\ heap' = [heap EXCEPT ![ctx.evidence] =
                   Update(@, [n \in {name} |-> value])]
    /\ UNCHANGED <<pc, verifier, call, wrap, ctx, scope, symbols, symcall, domain, inner>>

\* The block ends and the generator's finally clause verifies.  An
\* exception raised by the verification replaces the block's exception;
\* otherwise the block's exception leaves the with statement.
ScopeExit(how) ==
    /\ pc = "in_block"
    /\ pc' = "exited"
    /\ LET out == RunEngine(EngineOf(ctx.impl), ctx.truth, ctx.evidence,
                            heap[ctx.evidence])
       IN  /\ ctx' = IF out.raised = "none"
                     THEN [ctx EXCEPT !.result = out.result]
                     ELSE ctx
           /\ scope' = [scope EXCEPT
                 !.block = how,
                 !.out = out,
                 !.assigns = IF out.raised = "none" THEN @ + 1 ELSE @,
                 !.propagated =
                     IF out.raised # "none" THEN out.raised
                     ELSE IF how \in BlockExceptions THEN how
                     ELSE "none"]
    /\ symbols' = InternAll(symbols,
                     InternedBy(EngineOf(ctx.impl), ctx.truth,
                                heap[ctx.evidence]))
    /\ UNCHANGED <<verifier, heap, call, wrap, symcall, domain, inner>>

Next ==
    \/ \E engine \in Engines, t \in Truths :
          \E b \in BindingsOver(EvidenceNames(t)) : DirectCall(engine, t, b)
    \/ \E engine \in Engines, d \in DomainTruths, value \in Vals,
             predicate_result \in BOOLEAN :
          DomainVerify(engine, d, value, predicate_result)
    \/ \E t \in Truths, value \in Vals, name \in PredicateNames :
          PredicateCall(t, value, name)
    \/ \E impl \in Impls, t \in Truths :
          \E ret \in ReturnValues(t) : WrapperCall(impl, t, ret)
    \/ \E impl \in Impls, t \in Truths : ClaimEnter(impl, t)
    \/ /\ pc = "in_block"
       /\ \E new \in BindArgs(ctx.truth) : Bind(new)
    \/ /\ pc = "in_block"
       /\ \E name \in EvidenceNames(ctx.truth), value \in Vals :
             Observe(name, value)
    \/ \E how \in BlockEnds : ScopeExit(how)

Spec == Init /\ [][Next]_vars

-----------------------------------------------------------------------------
(* Longer sessions: the same Verifier and the same objects are used again  *)
(* after a call has returned or a scope has exited.  To keep these         *)
(* sessions small, their truths are one per evaluation path and their      *)
(* evidence binds only names the truth mentions.                           *)

SessionTruths ==
    {Analytic(PyStr("result"), Num(0), "x"),
     Modal(RelF("Ge", Sym("x"), Num(0)), "state"),
     Probabilistic("value", 0, ">")}

SessionBindings(t) == BindingsOver(TruthNames(t))

SessionUpdates(t) ==
    {new \in SessionBindings(t) : Cardinality(DOMAIN new) = 1}

\* The calls a block makes on its handle, and their sequences.
SessionOps(t) ==
    {BindOp(new) : new \in SessionUpdates(t)}
    \cup {ObserveOp(name, value) : name \in TruthNames(t), value \in Vals}

Scripts(t) == UNION {[1..k -> SessionOps(t)] : k \in 0..MaxOps}

\* Mutant: the other call's Evidence shares its bindings dict with the
\* caller's Evidence.
OtherCallSharedBindings(engine, t, b) ==
    /\ pc = "called" /\ call.op \in Engines
    /\ heap' = [heap EXCEPT !["caller"] = b]
    /\ symbols' = InternAll(symbols, InternedBy(engine, t, b))
    /\ UNCHANGED <<pc, verifier, call, wrap, ctx, scope, symcall, domain, inner>>

\* Between two calls on the same pair: another verify or falsify call, on
\* another truth and a fresh Evidence(bindings=b) that is dropped with its
\* result.
OtherCall(engine, t, b) ==
    /\ pc = "called" /\ call.op \in Engines
    /\ symbols' = InternAll(symbols, InternedBy(engine, t, b))
    /\ UNCHANGED <<pc, verifier, heap, call, wrap, ctx, scope, symcall, domain, inner>>

\* Mutant: the second call appends to the trace list of the first result.
ReverifySharedTrace ==
    /\ pc = "called" /\ call.op \in Engines
    /\ pc' = "recalled"
    /\ LET again == RunEngine(call.op, call.truth, "caller", heap["caller"])
       IN  call' = [call EXCEPT
                       !.again = again,
                       !.out.result.trace = @ \o again.result.trace]
    /\ symbols' = InternAll(symbols,
                     InternedBy(call.op, call.truth, heap["caller"]))
    /\ UNCHANGED <<verifier, heap, wrap, ctx, scope, symcall, domain, inner>>

\* The same engine is called again with the same truth and the same
\* Evidence object.
Reverify ==
    /\ pc = "called" /\ call.op \in Engines
    /\ pc' = "recalled"
    /\ call' = [call EXCEPT !.again =
                   RunEngine(call.op, call.truth, "caller", heap["caller"])]
    /\ symbols' = InternAll(symbols,
                     InternedBy(call.op, call.truth, heap["caller"]))
    /\ UNCHANGED <<verifier, heap, wrap, ctx, scope, symcall, domain, inner>>

\* c.bind(**new) after the with statement has been left.
LateBind(new) ==
    /\ pc \in {"exited", "late"}
    /\ pc' = "late"
    /\ heap' = [heap EXCEPT ![ctx.evidence] = Update(@, new)]
    /\ UNCHANGED <<verifier, call, wrap, ctx, scope, symbols, symcall, domain, inner>>

\* c.observe(name, value) after the with statement has been left.
LateObserve(name, value) ==
    /\ pc \in {"exited", "late"}
    /\ pc' = "late"
    /\ heap' = [heap EXCEPT ![ctx.evidence] =
                   Update(@, [n \in {name} |-> value])]
    /\ UNCHANGED <<verifier, call, wrap, ctx, scope, symbols, symcall, domain, inner>>

\* A direct call of sym(name); same tells whether it returned the object
\* the previous sym(name) returned.
SymCall(name, same) ==
    /\ pc \in {"idle", "interning"}
    /\ SymReturns(symbols, name, same)
    /\ pc' = "interning"
    /\ symbols' = SymIntern(symbols, name)
    /\ symcall' = [name |-> name, prior |-> name \in symbols.made,
                   same |-> same]
    /\ UNCHANGED <<verifier, heap, call, wrap, ctx, scope, domain, inner>>

SessionNext ==
    \/ \E engine \in Engines, t \in SessionTruths :
          \E b \in SessionBindings(t) : DirectCall(engine, t, b)
    \/ \E engine \in Engines, t \in SessionTruths :
          \E b \in SessionBindings(t) : OtherCall(engine, t, b)
    \/ Reverify
    \/ \E impl \in Impls, t \in SessionTruths : ClaimEnter(impl, t)
    \/ /\ pc = "in_block"
       /\ \E new \in SessionUpdates(ctx.truth) : Bind(new)
    \/ /\ pc = "in_block"
       /\ \E name \in TruthNames(ctx.truth), value \in Vals :
             Observe(name, value)
    \/ \E how \in BlockEnds : ScopeExit(how)
    \/ /\ pc \in {"exited", "late"}
       /\ \E new \in SessionUpdates(ctx.truth) : LateBind(new)
    \/ /\ pc \in {"exited", "late"}
       /\ \E name \in TruthNames(ctx.truth), value \in Vals :
             LateObserve(name, value)
    \/ \E name \in Names, same \in BOOLEAN : SymCall(name, same)

SessionSpec == Init /\ [][SessionNext]_vars

-----------------------------------------------------------------------------
(* Two scopes open at the same time: a second with claim(...) statement is *)
(* entered while the first is open, and the two may be left in either      *)
(* order.  The second handle runs the same claim, bind and observe code as *)
(* the first, on its own ClaimContext.                                     *)

NestedTruths ==
    {Analytic(PyStr("result"), Num(0), "x"), Probabilistic("value", 0, ">")}

\* The bindings a block gives its handle, one name per call.
NestedUpdates(t) ==
    {new \in BindingsOver(Falsify(t).form.free_symbols) :
        Cardinality(DOMAIN new) = 1}

\* Mutant: the second ClaimContext gets the Evidence object of the first
\* (a default shared between instances).
InnerEnterSharedEvidence(impl, t) ==
    /\ pc = "in_block" /\ inner.pc = "none"
    /\ inner' = [pc |-> "in_block", impl |-> impl, truth |-> t,
                 evidence |-> ctx.evidence, result |-> NoResult,
                 propagated |-> "none", outer_open |-> TRUE]
    /\ UNCHANGED <<pc, verifier, heap, call, wrap, ctx, scope, symbols,
                   symcall, domain>>

\* with claim(t) as c2, inside the block of the first scope.
InnerEnter(impl, t) ==
    /\ pc = "in_block" /\ inner.pc = "none"
    /\ heap' = [heap EXCEPT !["ctx2"] = EmptyBindings]
    /\ inner' = [pc |-> "in_block", impl |-> impl, truth |-> t,
                 evidence |-> "ctx2", result |-> NoResult,
                 propagated |-> "none", outer_open |-> TRUE]
    /\ UNCHANGED <<pc, verifier, call, wrap, ctx, scope, symbols, symcall,
                   domain>>

\* c2.bind(**new)
InnerBind(new) ==
    /\ inner.pc = "in_block"
    /\ heap' = [heap EXCEPT ![inner.evidence] = Update(@, new)]
    /\ UNCHANGED <<pc, verifier, call, wrap, ctx, scope, symbols, symcall,
                   domain, inner>>

\* c2.observe(name, value)
InnerObserve(name, value) ==
    /\ inner.pc = "in_block"
    /\ heap' = [heap EXCEPT ![inner.evidence] =
                   Update(@, [n \in {name} |-> value])]
    /\ UNCHANGED <<pc, verifier, call, wrap, ctx, scope, symbols, symcall,
                   domain, inner>>

\* The block of the second scope ends and its finally clause verifies;
\* outer_open records whether the first scope was still open then.
InnerExit(how) ==
    /\ inner.pc = "in_block"
    /\ LET out == RunEngine(EngineOf(inner.impl), inner.truth,
                            inner.evidence, heap[inner.evidence])
       IN  inner' = [inner EXCEPT
                 !.pc = "exited",
                 !.result = IF out.raised = "none" THEN out.result ELSE @,
                 !.propagated =
                     IF out.raised # "none" THEN out.raised
                     ELSE IF how \in BlockExceptions THEN how
                     ELSE "none",
                 !.outer_open = (pc = "in_block")]
    /\ symbols' = InternAll(symbols,
                     InternedBy(EngineOf(inner.impl), inner.truth,
                                heap[inner.evidence]))
    /\ UNCHANGED <<pc, verifier, heap, call, wrap, ctx, scope, symcall,
                   domain>>

NestedNext ==
    \/ \E impl \in Impls, t \in NestedTruths : ClaimEnter(impl, t)
    \/ /\ pc = "in_block"
       /\ \E new \in NestedUpdates(ctx.truth) : Bind(new)
    \/ /\ pc = "in_block"
       /\ \E name \in Falsify(ctx.truth).form.free_symbols, value \in Vals :
             Observe(name, value)
    \/ \E how \in BlockEnds : ScopeExit(how)
    \/ \E impl \in Impls, t \in NestedTruths : InnerEnter(impl, t)
    \/ /\ inner.pc = "in_block"
       /\ \E new \in NestedUpdates(inner.truth) : InnerBind(new)
    \/ /\ inner.pc = "in_block"
       /\ \E name \in Falsify(inner.truth).form.free_symbols,
             value \in Vals :
             InnerObserve(name, value)
    \/ \E how \in BlockEnds : InnerExit(how)

NestedSpec == Init /\ [][NestedNext]_vars

-----------------------------------------------------------------------------
(* Properties of the direct engine calls.                                  *)

\* A direct verify or falsify call has returned a result.
EngineReturned ==
    pc = "called" /\ call.op \in Engines /\ call.out.raised = "none"

\* The free variables of the called truth's form that the caller's evidence
\* leaves unbound.
Unbound ==
    {n \in Falsify(call.truth).form.free_symbols :
        n \notin DOMAIN heap["caller"]}

\* The evaluation outcome the call recorded last in its trace, "none" when
\* the call evaluated nothing.
Outcome ==
    LET trace == call.out.result.trace
        last == trace[Len(trace)]
    IN  IF Len(trace) > 0
           /\ last[1] \in {"Direct evaluation result: ", "Evaluation result: "}
        THEN last[2]
        ELSE "none"

EvaluationSteps == {"direct", "substitute", "evaluate"}

StepsOf(out) == {out.steps[i] : i \in 1..Len(out.steps)}

\* C1: for an Analytic claim with a variable name as lhs and a number as
\* rhs, Verifier.verify returns SURVIVED when the evidence binds lhs to a
\* value equal to rhs, KILLED when it binds lhs to another value, and
\* UNCERTAIN with a reasoning that names lhs when lhs is unbound.
C1_AnalyticVerdict ==
    (/\ pc = "called" /\ call.op = "verify"
     /\ call.truth.variant = "Analytic"
     /\ call.truth.lhs.k = "str" /\ call.truth.rhs.k = "num")
    => LET b == heap["caller"]
           lhs == call.truth.lhs.n
           rhs == call.truth.rhs.v
           r == call.out.result
       IN  /\ call.out.raised = "none"
           /\ (lhs \in DOMAIN b /\ b[lhs] = rhs) => r.verdict = "SURVIVED"
           /\ (lhs \in DOMAIN b /\ b[lhs] # rhs) => r.verdict = "KILLED"
           /\ lhs \notin DOMAIN b =>
                 /\ r.verdict = "UNCERTAIN"
                 /\ r.reasoning[1] = "Missing evidence for: "
                 /\ lhs \in r.reasoning[2]

C1_Witness ==
    /\ pc = "called" /\ call.op = "verify"
    /\ call.truth.variant = "Analytic"
    /\ call.truth.lhs.k = "str" /\ call.truth.rhs.k = "num"
    /\ "result" \in DOMAIN heap["caller"]
    /\ heap["caller"]["result"] # call.truth.rhs.v
    /\ call.out.result.verdict = "KILLED"

\* C2: in both engines, a call whose evidence leaves a free variable of the
\* form unbound returns UNCERTAIN, its reasoning names exactly the unbound
\* free variables, and it performed no direct evaluation, substitution or
\* simplification.
C2_MissingEvidenceFailsFast ==
    (pc = "called" /\ call.op \in Engines
        /\ Falsify(call.truth).exc = "none" /\ Unbound # {})
    => /\ call.out.raised = "none"
       /\ call.out.result.verdict = "UNCERTAIN"
       /\ call.out.result.reasoning = <<"Missing evidence for: ", Unbound>>
       /\ StepsOf(call.out) \cap EvaluationSteps = {}

C2_Witness ==
    /\ pc = "called" /\ call.op = "falsify"
    /\ call.truth.variant = "Modal"
    /\ Unbound = {"x"}
    /\ "state" \in DOMAIN heap["caller"]
    /\ call.out.result.verdict = "UNCERTAIN"

\* C3: with complete evidence, outcome true gives KILLED with a reasoning
\* that holds the form's description, outcome false gives SURVIVED, and an
\* indeterminate outcome gives UNCERTAIN with a reasoning that holds the
\* substituted formula.
C3_OutcomeToVerdict ==
    (EngineReturned /\ Unbound = {})
    => LET r == call.out.result
           form == Falsify(call.truth).form
       IN  /\ Outcome \in {"True", "False", "None"}
           /\ Outcome = "True" =>
                 /\ r.verdict = "KILLED"
                 /\ r.reasoning[2] = form.description
           /\ Outcome = "False" => r.verdict = "SURVIVED"
           /\ Outcome = "None" =>
                 /\ r.verdict = "UNCERTAIN"
                 /\ r.reasoning[1] = "Could not evaluate formula: "
                 /\ r.reasoning[2] =
                        StrFormula(Substitute(form, heap["caller"]))

C3_Witness ==
    /\ EngineReturned /\ Unbound = {}
    /\ call.op = "verify"
    /\ call.truth.variant = "Empirical"
    /\ Outcome = "None"
    /\ call.out.result.reasoning[2] = <<"Contradicts(", "1", ")">>

\* C4: a returned verdict is KILLED or SURVIVED only if the evidence binds
\* every free variable of the form and the evaluation produced a boolean;
\* it is UNCERTAIN only if a free variable was unbound or the evaluation
\* produced no boolean.
C4_VerdictInvariant ==
    EngineReturned
    => LET verdict == call.out.result.verdict
       IN  /\ verdict \in {"KILLED", "SURVIVED", "UNCERTAIN"}
           /\ verdict \in {"KILLED", "SURVIVED"} =>
                 Unbound = {} /\ Outcome \in {"True", "False"}
           /\ verdict = "UNCERTAIN" => Unbound # {} \/ Outcome = "None"

C4_Witness ==
    /\ EngineReturned
    /\ call.op = "verify"
    /\ call.truth.variant = "Modal"
    /\ call.truth.invariant.l = Sym("x")
    /\ call.out.result.verdict = "KILLED"
    /\ Outcome = "True"

-----------------------------------------------------------------------------
(* Properties of the claim scope.                                          *)

\* C6: after the scope exits the handle's result is populated, whether the
\* block completed or raised; when the block raised, the verification ran
\* on the bindings collected before the exception and the block's
\* exception is the one that leaves the with statement.
C6_ResultPopulatedAfterExit ==
    pc = "exited"
    => /\ ctx.result.verdict # "None"
       /\ scope.block \in BlockExceptions
             => /\ scope.propagated = scope.block
                /\ ctx.result.trace[3] =
                       <<"Evidence bindings: ", heap[ctx.evidence]>>

\* C7: verification runs exactly once per scope, at scope exit and not
\* before: the handle's result is None inside the block and is assigned
\* exactly once, however the block ends.
C7_VerifiedExactlyOnce ==
    /\ pc = "in_block" => ctx.result.verdict = "None" /\ scope.assigns = 0
    /\ pc = "exited" => ctx.result.verdict # "None" /\ scope.assigns = 1

-----------------------------------------------------------------------------
(* Properties of the verified decorator.                                   *)

\* The verification of the bindings the wrapped function returned.
WrapperVerification ==
    RunEngine(EngineOf(wrap.impl), wrap.truth, "wrapper", heap["wrapper"])

\* C8: when the verification of the returned bindings yields KILLED, the
\* decorated call raises an assertion failure whose message holds
\* "KILLED", the statement, the reasoning and the evidence bindings; when
\* it yields SURVIVED or UNCERTAIN the call raises nothing and returns the
\* result.
C8_DecoratorRaisesOnKilledOnly ==
    (pc = "wrapped" /\ WrapperVerification.raised = "none")
    => LET v == WrapperVerification.result
           message == wrap.out.message
       IN  /\ v.verdict = "KILLED"
                 => /\ wrap.out.raised = "AssertionError"
                    /\ message[1] = "Claim KILLED: "
                    /\ message[2] = wrap.truth.statement
                    /\ message[4] = v.reasoning
                    /\ message[6] = heap["wrapper"]
           /\ v.verdict \in {"SURVIVED", "UNCERTAIN"}
                 => /\ wrap.out.raised = "none"
                    /\ wrap.out.result = v

C8_Witness ==
    /\ pc = "wrapped"
    /\ wrap.ret.k = "value"
    /\ WrapperVerification.raised = "none"
    /\ WrapperVerification.result.verdict = "KILLED"
    /\ wrap.out.raised = "AssertionError"

\* C9: with the engine configured in strict mode, the decorator raises a
\* failure when the verdict is UNCERTAIN, while a direct verify call of a
\* strict Verifier returns the UNCERTAIN result without raising.
C9_StrictDecoratorFailsOnUncertain ==
    /\ (/\ pc = "wrapped" /\ wrap.impl = "testing" /\ verifier.strict
        /\ WrapperVerification.raised = "none"
        /\ WrapperVerification.result.verdict = "UNCERTAIN")
       => wrap.out.raised = "AssertionError"
    /\ (/\ pc = "called" /\ call.op = "verify" /\ verifier.strict
        /\ call.out.result.verdict = "UNCERTAIN")
       => call.out.raised = "none"

\* C10: a direct verify or falsify call never raises, whatever the truth
\* variant and the evidence; only the decorator surfaces a failure, and
\* only for a KILLED verdict.
C10_DirectCallsNeverRaise ==
    /\ (pc = "called" /\ call.op \in Engines) => call.out.raised = "none"
    /\ (pc = "wrapped" /\ wrap.out.raised # "none")
       => /\ wrap.out.raised = "AssertionError"
          /\ WrapperVerification.result.verdict = "KILLED"

-----------------------------------------------------------------------------
(* Properties of repeated calls (SessionSpec).                             *)

C16_SymIdentity ==
    (pc = "interning" /\ symcall.prior) => symcall.same

-----------------------------------------------------------------------------
(* Properties of the variants (Spec).                                      *)

\* C12: for a Modal claim whose invariant is a relation over its state
\* variable, and an evidence that binds the state variable to a number,
\* verify returns KILLED when the invariant is false at that number and
\* SURVIVED when it is true.
C12_ModalVerdict ==
    (/\ pc = "called" /\ call.op = "verify"
     /\ call.truth.variant = "Modal"
     /\ FreeSymbols(call.truth.invariant) = {call.truth.state_var}
     /\ call.truth.state_var \in DOMAIN heap["caller"])
    => LET invariant == call.truth.invariant
           state == heap["caller"][call.truth.state_var]
           holds == Holds(invariant.op, state, invariant.r.v)
       IN  /\ call.out.raised = "none"
           /\ call.out.result.verdict = IF holds THEN "SURVIVED" ELSE "KILLED"

C12_Witness ==
    /\ pc = "called" /\ call.op = "verify"
    /\ call.truth.variant = "Modal"
    /\ FreeSymbols(call.truth.invariant) = {call.truth.state_var}
    /\ "state" \in DOMAIN heap["caller"]
    /\ heap["caller"]["state"] < 0
    /\ call.out.result.verdict = "KILLED"

\* C13: check_threshold(value) is true exactly when value <direction>
\* threshold holds; on the predicate path a value equal to the threshold is
\* KILLED for '>' and '<' and SURVIVED for '>=', '<=' and '='.
C13_ThresholdBoundary ==
    /\ \A d \in Directions, threshold \in Vals, value \in Vals :
          CheckThreshold(Probabilistic("value", threshold, d), value).value
              = Holds(DirectionOp(d), value, threshold)
    /\ (/\ pc = "called" /\ call.op = "verify_with_predicate"
        /\ call.truth.variant = "Probabilistic"
        /\ call.predicate_name = "check_threshold")
       => LET t == call.truth
              r == call.out.result
          IN  /\ call.out.raised = "none"
              /\ r.verdict =
                    IF Holds(DirectionOp(t.direction), call.value, t.threshold)
                    THEN "SURVIVED" ELSE "KILLED"
              /\ call.value = t.threshold
                    => r.verdict = IF t.direction \in {">", "<"}
                                   THEN "KILLED" ELSE "SURVIVED"

C13_Witness ==
    /\ pc = "called" /\ call.op = "verify_with_predicate"
    /\ call.truth.variant = "Probabilistic"
    /\ call.predicate_name = "check_threshold"
    /\ call.truth.direction = ">"
    /\ call.value = call.truth.threshold
    /\ call.out.result.verdict = "KILLED"

\* C14: for every verify or falsify call whose evidence is complete, the
\* returned trace holds, in this order, an entry for the form description,
\* one for the evidence snapshot, one for the substituted formula and one
\* for the evaluation result.
C14_TraceOrder ==
    (EngineReturned /\ Unbound = {})
    => LET trace == call.out.result.trace
       IN  \E i, j, k, l \in 1..Len(trace) :
              /\ i < j /\ j < k /\ k < l
              /\ trace[i][1] = "Falsification form: "
              /\ trace[j][1] = "Evidence bindings: "
              /\ trace[k][1] = "Substituted formula: "
              /\ trace[l][1] \in {"Evaluation result: ",
                                  "Direct evaluation result: "}

\* C17: the verified decorator uses a returned mapping as the bindings as
\* is, turns any other non-None value v into the bindings {result: v} and
\* None into empty bindings, and verifies exactly these bindings.
C17_DecoratorEvidence ==
    pc = "wrapped"
    => LET ret == wrap.ret
           expected == IF ret.k = "dict" THEN ret.b
                       ELSE IF ret.k = "value" THEN [n \in {"result"} |-> ret.v]
                       ELSE EmptyBindings
           verified_on == RunEngine(EngineOf(wrap.impl), wrap.truth,
                                    "wrapper", expected)
       IN  /\ heap["wrapper"] = expected
           /\ wrap.out.raised = "none"
                 => /\ wrap.out.result = verified_on.result
                    /\ wrap.out.result.evidence = "wrapper"
                    /\ wrap.out.result.trace[3] =
                           <<"Evidence bindings: ", expected>>
           /\ wrap.out.raised = "AssertionError"
                 => /\ verified_on.result.verdict = "KILLED"
                    /\ wrap.out.message[6] = expected

C17_Witness ==
    /\ pc = "wrapped"
    /\ wrap.ret.k = "value" /\ wrap.ret.v = 0
    /\ heap["wrapper"] = [n \in {"result"} |-> 0]
    /\ wrap.out.raised = "none"
    /\ wrap.out.result.verdict = "SURVIVED"

\* C18: every result verify or falsify returns, whatever its verdict,
\* carries the form built from the truth, refers to the very Evidence
\* object that was passed in, and has a non-empty trace.
C18_ResultCarriesFormAndEvidence ==
    EngineReturned
    => LET r == call.out.result
       IN  /\ r.form.formula.op # "none"
           /\ r.form.description # <<>>
           /\ r.form = Falsify(call.truth).form
           /\ r.evidence = "caller"
           /\ Len(r.trace) > 0

C18_Witness ==
    /\ EngineReturned
    /\ Unbound # {}
    /\ call.out.result.verdict = "UNCERTAIN"
    /\ call.out.result.evidence = "caller"
    /\ call.out.result.form.free_symbols # {}

\* C19: for each shipped domain truth, the Evidence its bind() returns
\* binds every free variable of the form of its base truth, so verifying
\* the base truth against it never ends in UNCERTAIN for missing evidence.
C19_DomainEvidenceComplete ==
    (pc = "called" /\ domain.domain # "none")
    => /\ Falsify(call.truth).form.free_symbols \subseteq DOMAIN heap["caller"]
       /\ call.out.raised = "none"
       /\ ~(/\ call.out.result.verdict = "UNCERTAIN"
            /\ call.out.result.reasoning[1] = "Missing evidence for: ")

-----------------------------------------------------------------------------
(* Properties of the scope after its exit (SessionSpec).                   *)

\* C20: once the verification of a scoped claim has run at scope exit, the
\* evidence it ran on is read-only: no later bind or observe on the handle
\* changes the bindings recorded in the result's evidence.
C20_EvidenceReadOnlyAfterExit ==
    [][(pc \in {"exited", "late"} /\ scope.out.raised = "none")
       => heap'[ctx.result.evidence] = heap[ctx.result.evidence]]_vars

-----------------------------------------------------------------------------
(* Properties of the evidence a verdict depends on (Spec).                 *)

\* The verdict the engine gives the truth t on the bindings b ("None" when
\* the call raises).
VerdictOf(engine, t, b) == RunEngine(engine, t, "caller", b).result.verdict

\* The bindings b with the name removed.
Without(b, name) == [n \in DOMAIN b \ {name} |-> b[n]]

\* A direct verify or falsify call on an Analytic claim.
AnalyticCalled ==
    pc = "called" /\ call.op \in Engines /\ call.truth.variant = "Analytic"

-----------------------------------------------------------------------------
(* Properties of the evaluation paths of Verifier.verify (Spec).           *)

\* C22: for a Modal claim with complete evidence, when substituting the
\* bound state value into the invariant simplifies to neither true nor
\* false and boolean coercion of the result fails, the verdict of verify is
\* UNCERTAIN.
C22_ModalCoercionFailsUncertain ==
    (/\ pc = "called" /\ call.op = "verify"
     /\ call.truth.variant = "Modal"
     /\ Unbound = {}
     /\ call.truth.state_var \in DOMAIN heap["caller"]
     /\ Subs(call.truth.invariant, call.truth.state_var,
             heap["caller"][call.truth.state_var]).op \notin {"true", "false"})
    => call.out.result.verdict = "UNCERTAIN"

\* The entries of a trace that record the outcome of an evaluation.
EvaluationEntries(trace) ==
    {i \in 1..Len(trace) :
        trace[i][1] \in {"Direct evaluation result: ", "Evaluation result: "}}

\* C23: in Verifier.verify the direct path is attempted only after the
\* completeness check passed and before the symbolic path; the symbolic
\* path (substitute, then evaluate) runs if and only if the direct path
\* returned no decision; so a call with complete evidence records exactly
\* one evaluation outcome.
C23_DirectThenSymbolic ==
    (EngineReturned /\ call.op = "verify")
    => LET steps == call.out.steps
           direct == EvaluateFalsificationDirectly(call.truth, heap["caller"])
           trace == call.out.result.trace
       IN  /\ Unbound # {} => steps = <<"falsify", "check">>
           /\ (Unbound = {} /\ direct # "None")
              => /\ steps = <<"falsify", "check", "direct">>
                 /\ trace[Len(trace)] =
                        <<"Direct evaluation result: ", direct>>
           /\ (Unbound = {} /\ direct = "None")
              => /\ steps = <<"falsify", "check", "direct", "substitute",
                              "evaluate">>
                 /\ trace[Len(trace)][1] = "Evaluation result: "
           /\ ("substitute" \in StepsOf(call.out)
               <=> (Unbound = {} /\ direct = "None"))
           /\ Unbound = {} => Cardinality(EvaluationEntries(trace)) = 1
           /\ Unbound # {} => EvaluationEntries(trace) = {}

C23_Witness ==
    /\ EngineReturned /\ call.op = "verify"
    /\ Unbound = {}
    /\ EvaluateFalsificationDirectly(call.truth, heap["caller"]) = "None"
    /\ call.out.steps = <<"falsify", "check", "direct", "substitute",
                          "evaluate">>
    /\ call.out.result.verdict = "KILLED"

\* C24: each verify call goes through start, form-constructed,
\* evidence-checked, then exactly one of evaluated or missing-evidence,
\* then verdict-assigned, in this order, none skipped or repeated; the
\* verdict starts as UNCERTAIN and changes at most once per call, never
\* from KILLED to SURVIVED or back.
C24_StepsInOrder ==
    (pc = "called" /\ call.op \in Engines)
    => LET writes == VerdictWrites(call.out)
       IN  /\ Phases(call.out) \in
                 {<<"start", "form-constructed", "evidence-checked", mid,
                    "verdict-assigned">> :
                     mid \in {"evaluated", "missing-evidence"}}
           /\ writes[1] = "UNCERTAIN"
           /\ Len(writes) <= 2
           /\ \A i \in 1..(Len(writes) - 1) :
                 {writes[i], writes[i + 1]} # {"KILLED", "SURVIVED"}

-----------------------------------------------------------------------------
(* The two engines and the two verification paths compared (Spec).         *)

\* C25: for every Analytic claim and every evidence that binds all free
\* variables of its form, the variables of a symbolic rhs included,
\* Verifier.verify and falsification.falsify return the same verdict.
C25_EnginesAgreeOnAnalytic ==
    (AnalyticCalled /\ call.out.raised = "none" /\ Unbound = {})
    => VerdictOf("verify", call.truth, heap["caller"])
           = VerdictOf("falsify", call.truth, heap["caller"])

\* C26: for every Probabilistic claim, direction and integer value v,
\* verify on the evidence {metric: v} and verify_with_predicate with
\* check_threshold on v give the same verdict: KILLED exactly when
\* v <direction> threshold is false, SURVIVED otherwise.
C26_ProbabilisticPathsAgree ==
    (/\ pc = "called" /\ call.op = "verify"
     /\ call.truth.variant = "Probabilistic")
    => /\ \A threshold \in Vals, v \in Vals :
             LET t == [call.truth EXCEPT !.threshold = threshold]
                 expected == IF Holds(DirectionOp(t.direction), v, threshold)
                             THEN "SURVIVED" ELSE "KILLED"
             IN  /\ VerifierVerify(t, "caller", [n \in {t.metric} |-> v])
                        .result.verdict = expected
                 /\ VerifyWithPredicate(t, v, "check_threshold")
                        .result.verdict = expected
       /\ call.truth.metric \in DOMAIN heap["caller"]
          => LET t == call.truth
                 v == heap["caller"][t.metric]
             IN  /\ call.out.raised = "none"
                 /\ call.out.result.verdict =
                       VerifyWithPredicate(t, v, "check_threshold")
                           .result.verdict
                 /\ call.out.result.verdict = "KILLED"
                       <=> ~Holds(DirectionOp(t.direction), v, t.threshold)
                 /\ call.out.result.verdict \in {"KILLED", "SURVIVED"}

C26_Witness ==
    /\ pc = "called" /\ call.op = "verify"
    /\ call.truth.variant = "Probabilistic"
    /\ call.truth.direction = ">="
    /\ call.truth.metric \in DOMAIN heap["caller"]
    /\ heap["caller"][call.truth.metric] < call.truth.threshold
    /\ call.out.result.verdict = "KILLED"

\* C27: for every Empirical claim, with or without an expected predicate,
\* and every evidence, verify and falsify return UNCERTAIN, both when the
\* observation variable is unbound and when it is bound; the predicate path
\* with check_observation is the one that decides an Empirical claim.
C27_EmpiricalOnlyByPredicate ==
    /\ (/\ pc = "called" /\ call.op \in Engines
        /\ call.truth.variant = "Empirical")
       => LET r == call.out.result
              bound == call.truth.observation_var \in DOMAIN heap["caller"]
          IN  /\ call.out.raised = "none"
              /\ r.verdict = "UNCERTAIN"
              /\ ~bound => r.reasoning[1] = "Missing evidence for: "
              /\ bound => r.reasoning[1] = "Could not evaluate formula: "
    /\ (/\ pc = "called" /\ call.op = "verify_with_predicate"
        /\ call.truth.variant = "Empirical"
        /\ call.predicate_name = "check_observation"
        /\ call.truth.expected_predicate # "raises")
       => call.out.result.verdict \in {"KILLED", "SURVIVED"}

C27_Witness ==
    /\ pc = "called" /\ call.op \in Engines
    /\ call.truth.variant = "Empirical"
    /\ call.truth.expected_predicate = "is_zero"
    /\ call.truth.observation_var \in DOMAIN heap["caller"]
    /\ heap["caller"][call.truth.observation_var] # 0
    /\ call.out.result.verdict = "UNCERTAIN"

\* C28: the verdict of verify depends only on the bindings of the form's
\* free variables: for Analytic, Modal and Probabilistic claims, adding,
\* removing or changing the binding of a name that is not a free variable
\* of the form (the Modal state_var included, when the invariant does not
\* mention it) never changes the verdict.
C28_OnlyFreeVariablesMatter ==
    (/\ pc = "called" /\ call.op = "verify"
     /\ call.truth.variant \in {"Analytic", "Modal", "Probabilistic"})
    => LET t == call.truth
           b == heap["caller"]
           free == Falsify(t).form.free_symbols
       IN  \A n \in (Names \cup DOMAIN b) \ free :
              /\ VerdictOf("verify", t, Without(b, n))
                     = call.out.result.verdict
              /\ \A val \in Vals :
                    VerdictOf("verify", t, Update(b, [m \in {n} |-> val]))
                        = call.out.result.verdict

-----------------------------------------------------------------------------
(* Properties of the bindings a scope gathers (SessionSpec).               *)

\* The names a sequence of calls writes, and the value the last call that
\* writes a name gives it.
Written(ops) == UNION {DOMAIN ops[i].new : i \in 1..Len(ops)}

LastValue(ops, name) ==
    LET writers == {i \in 1..Len(ops) : name \in DOMAIN ops[i].new}
        last == CHOOSE i \in writers : \A j \in writers : j <= i
    IN  ops[last].new[name]

\* C29: inside a claim scope, after any sequence of bind and observe calls
\* the handle's evidence maps each name to the value most recently bound to
\* it (a later binding overwrites, other names are kept), observe returns
\* the value it was given, and the verification at scope exit uses exactly
\* these final bindings (whenever it returns a result).
C29_LastBindingWins ==
    /\ (pc = "in_block" /\ heap[ctx.evidence] = EmptyBindings)
       => \A ops \in Scripts(ctx.truth) :
             LET final == Replay(heap[ctx.evidence], ops)
                 out == RunEngine(EngineOf(ctx.impl), ctx.truth,
                                  ctx.evidence, final)
             IN  /\ DOMAIN final = Written(ops)
                 /\ \A n \in Written(ops) : final[n] = LastValue(ops, n)
                 /\ out.raised = "none"
                    => /\ out.result.evidence = ctx.evidence
                       /\ out.result.trace[3] =
                              <<"Evidence bindings: ", final>>
    /\ (pc = "in_block")
       => \A name \in TruthNames(ctx.truth), value \in Vals :
             /\ ObserveReturn(name, value) = value
             /\ Replay(heap[ctx.evidence], <<ObserveOp(name, value)>>)[name]
                    = value
    /\ (pc = "exited" /\ scope.out.raised = "none")
       => /\ ctx.result = scope.out.result
          /\ ctx.result =
                RunEngine(EngineOf(ctx.impl), ctx.truth, ctx.evidence,
                          heap[ctx.evidence]).result
          /\ ctx.result.trace[3] =
                <<"Evidence bindings: ", heap[ctx.evidence]>>

C29_Witness ==
    /\ pc = "exited"
    /\ ctx.truth.variant = "Analytic"
    /\ DOMAIN heap[ctx.evidence] = {"result", "x"}
    /\ heap[ctx.evidence]["result"] # 0
    /\ ctx.result.verdict = "KILLED"
    /\ ctx.result.trace[3][2] = heap[ctx.evidence]

-----------------------------------------------------------------------------
(* Properties of two scopes open at the same time (NestedSpec).            *)

\* A scope's result is the verification of its own truth on its own
\* handle's bindings.
OwnResult(impl, t, ref, r) ==
    LET out == RunEngine(EngineOf(impl), t, ref, heap[ref])
    IN  out.raised = "none" => (r = out.result /\ r.evidence = ref)

\* C30: two claim scopes open at the same time have independent evidence
\* and results: the handles hold different Evidence objects and no step
\* changes the bindings or the result of both, so a bind or observe on one
\* handle never changes the other's bindings; and each scope's result is
\* computed from its own bindings only, whatever the order in which the
\* scopes exit.
C30_ScopesIndependent ==
    /\ [](inner.pc # "none"
          => /\ ctx.evidence # inner.evidence
             /\ pc = "exited"
                => OwnResult(ctx.impl, ctx.truth, ctx.evidence, ctx.result)
             /\ inner.pc = "exited"
                => OwnResult(inner.impl, inner.truth, inner.evidence,
                             inner.result))
    /\ [][(inner.pc # "none" /\ inner'.pc # "none")
          => /\ ~(/\ heap'[ctx.evidence] # heap[ctx.evidence]
                  /\ heap'[inner.evidence] # heap[inner.evidence])
             /\ ctx'.result # ctx.result => inner' = inner
             /\ inner'.result # inner.result => ctx' = ctx
         ]_vars

C30_Witness ==
    /\ pc = "exited" /\ inner.pc = "exited"
    /\ ~inner.outer_open
    /\ ctx.truth = inner.truth
    /\ heap[ctx.evidence] # heap[inner.evidence]
    /\ ctx.result.verdict = "KILLED"
    /\ inner.result.verdict = "SURVIVED"

====
